---- MODULE Spec2Model ----
(***************************************************************************)
(* InfoHub API (main.py, models.py): the four tables users, authors,       *)
(* articles, comments and the request handlers that read and write them.   *)
(* A table is the sequence of its rows in insertion order; `last` is the   *)
(* request most recently answered together with its response.             *)
(***************************************************************************)
EXTENDS Integers, Sequences, FiniteSets, TLC

VARIABLES users, authors, articles, comments, pending, last

tables == <<users, authors, articles, comments>>
vars == <<users, authors, articles, comments, pending, last>>

\* ------------------------------------------------------------------ bounds
MaxComments == 2
MaxRequests == 2
MaxTagLen == 5
MaxArticles == 2

\* ------------------------------------------------------------ input values
Usernames == {"alice", "bob"}
Emails == {"alice@x.com", "bob@x.com"}
Passwords == {"secret", "other"}
Salts == {"s1", "s2"}
Tokens == Usernames \cup {"mallory"}
AuthorNames == {"Ann"}
AuthorEmails == {"ann@x.com", "ben@x.com"}
\* bio is optional: NULL when the form leaves it out
AuthorBios == {"NULL"}
Titles == {"Hi"}
Contents == {"Body"}
ArticleIds == {1, 2}
CommentAuthors == {"amy"}
CommentContents == {"nice"}
\* a str is the sequence of its characters
TagChars == {"a", "b", "c", ","}
TagInputs == {<<>>, <<"x", ",", "y">>}

\* ------------------------------------------------------- python / database
\* Python's None (the result of .first() on an empty result set)
None == [type |-> "NoneType"]
\* a column that was given no value
NULL == "NULL"

HTTP_401_UNAUTHORIZED == 401
HTTP_400_BAD_REQUEST == 400
HTTP_303_SEE_OTHER == 303

\* pwd_context.hash: salted, so the same password gives different hashes
hash_password(password, salt) == [scheme |-> "bcrypt", salt |-> salt, of |-> password]

\* pwd_context.verify
verify(password, hashed) == hashed.scheme = "bcrypt" /\ hashed.of = password

\* Query.first()
first(rows) == IF rows = <<>> THEN None ELSE rows[1]

\* the autoincremented integer primary key of the next row of a table
next_id(rows) == Len(rows) + 1

\* the attributes the declarative classes of models.py accept as keywords
UserAttrs == {"id", "username", "email", "password", "articles"}
ArticleAttrs == {"id", "title", "content", "published_at", "author_id", "author", "comments"}
AuthorAttrs == {"id", "name", "email", "bio"}
CommentAttrs == {"id", "author_name", "content", "created_at", "article_id", "article"}

\* the declarative constructor raises TypeError on a keyword that is no attribute
constructor_accepts(attrs, kwargs) == DOMAIN kwargs \subseteq attrs

\* mutant: only the username is unique
users_unique_violation_username_only(rows, new_user) ==
    \E i \in 1..Len(rows) : rows[i].username = new_user.username

\* unique=True on users.username and users.email
users_unique_violation(rows, new_user) ==
    \E i \in 1..Len(rows) :
        \/ rows[i].username = new_user.username
        \/ rows[i].email = new_user.email

\* unique=True on authors.email
authors_unique_violation(rows, author) ==
    \E i \in 1..Len(rows) : rows[i].email = author.email

\* str.split(sep)
RECURSIVE split(_, _)
split(s, sep) ==
    IF \E i \in 1..Len(s) : s[i] = sep
    THEN LET i == CHOOSE k \in 1..Len(s) :
                      s[k] = sep /\ \A j \in 1..(k - 1) : s[j] # sep
         IN  <<SubSeq(s, 1, i - 1)>> \o split(SubSeq(s, i + 1, Len(s)), sep)
    ELSE <<s>>

\* ---------------------------------------------------------------- initial
NoRequest == [op |-> "none"]

Init ==
    /\ users = <<>>
    /\ authors = <<>>
    /\ articles = <<>>
    /\ comments = <<>>
    /\ pending = {}
    /\ last = NoRequest

\* ---------------------------------------------------------------- responses
TemplateResponse(name, context) ==
    [kind |-> "TemplateResponse", template |-> name, context |-> context]

RedirectResponse(url, status_code) ==
    [kind |-> "RedirectResponse", url |-> url, status_code |-> status_code]

JSONResponse(body) == [kind |-> "JSON", body |-> body]

HTTPException(status_code) == [kind |-> "HTTPException", status_code |-> status_code]

\* an exception no handler catches: the framework answers 500
Unhandled(exc) == [kind |-> "Unhandled", exc |-> exc]

\* the foreign keys of models.py are declared; whether the engine of
\* database.py enforces them on insert
foreign_keys_enforced == FALSE

\* ----------------------------------------------------------------- queries
\* db.query(models.User).filter(models.User.username == username)
users_by_username(username) ==
    LET Test(row) == row.username = username IN SelectSeq(users, Test)

\* db.query(models.Article).filter(models.Article.id == article_id)
articles_by_id(article_id) ==
    LET Test(row) == row.id = article_id IN SelectSeq(articles, Test)

\* mutant: the filter on article_id is lost
comments_unfiltered(article_id) == comments

\* db.query(models.Comment).filter(models.Comment.article_id == article_id)
comments_by_article_id(article_id) ==
    LET Test(row) == row.article_id = article_id IN SelectSeq(comments, Test)

\* get_current_user: the User the token names, None standing for the 401 raised
get_current_user(token) == first(users_by_username(token))

\* ---------------------------------------------------------------- register
\* models.User(username=..., email=..., password=hash_password(password))
new_user_kwargs(username, email, password, salt) ==
    [username |-> username, email |-> email,
     password |-> hash_password(password, salt)]

\* the form fields of POST /register
register_form(username, email, password) ==
    [username |-> username, email |-> email, password |-> password]

\* mutant: a duplicate username overwrites the stored row instead of failing
commit_new_user_upsert(form, new_user) ==
    IF \E i \in 1..Len(users) : users[i].username = new_user.username
    THEN /\ users' = [i \in 1..Len(users) |->
                         IF users[i].username = new_user.username
                         THEN [id |-> users[i].id] @@ new_user
                         ELSE users[i]]
         /\ last' = [op |-> "register", args |-> form,
                     response |-> TemplateResponse("register_success.html",
                                      [username |-> form.username])]
    ELSE IF users_unique_violation(users, new_user)
    THEN /\ last' = [op |-> "register", args |-> form,
                     response |-> Unhandled("IntegrityError")]
         /\ UNCHANGED users
    ELSE /\ users' = Append(users, [id |-> next_id(users)] @@ new_user)
         /\ last' = [op |-> "register", args |-> form,
                     response |-> TemplateResponse("register_success.html",
                                      [username |-> form.username])]

\* db.add(new_user); db.commit() and the response of register_user
commit_new_user(form, new_user) ==
    IF ~constructor_accepts(UserAttrs, new_user)
    THEN /\ last' = [op |-> "register", args |-> form,
                     response |-> Unhandled("TypeError")]
         /\ UNCHANGED users
    ELSE IF users_unique_violation(users, new_user)
    THEN /\ last' = [op |-> "register", args |-> form,
                     response |-> Unhandled("IntegrityError")]
         /\ UNCHANGED users
    ELSE /\ users' = Append(users, [id |-> next_id(users)] @@ new_user)
         /\ last' = [op |-> "register", args |-> form,
                     response |-> TemplateResponse("register_success.html",
                                      [username |-> form.username])]

\* POST /register, the whole handler
register_user(username, email, password, salt) ==
    /\ commit_new_user(register_form(username, email, password),
                       new_user_kwargs(username, email, password, salt))
    /\ UNCHANGED <<authors, articles, comments, pending>>

\* POST /register up to db.add(new_user): the request holds its new User
register_begin(username, email, password, salt) ==
    /\ Cardinality(pending) < MaxRequests
    /\ pending' = pending \cup
           {[form |-> register_form(username, email, password),
             new_user |-> new_user_kwargs(username, email, password, salt)]}
    /\ UNCHANGED <<users, authors, articles, comments, last>>

\* POST /register from db.commit() on, for a request in flight
register_commit(request) ==
    /\ request \in pending
    /\ pending' = pending \ {request}
    /\ commit_new_user(request.form, request.new_user)
    /\ UNCHANGED <<authors, articles, comments>>

\* ------------------------------------------------------------------- login
\* mutant: the password is not verified
login_response_no_verify(username, password) ==
    LET user == first(users_by_username(username))
    IN  IF user = None
        THEN HTTPException(HTTP_400_BAD_REQUEST)
        ELSE JSONResponse([access_token |-> user.username, token_type |-> "bearer"])

\* POST /token
login_response(username, password) ==
    LET user == first(users_by_username(username))
    IN  IF user = None \/ ~verify(password, user.password)
        THEN HTTPException(HTTP_400_BAD_REQUEST)
        ELSE JSONResponse([access_token |-> user.username, token_type |-> "bearer"])

login(username, password) ==
    /\ last' = [op |-> "login",
                args |-> [username |-> username, password |-> password],
                response |-> login_response(username, password)]
    /\ UNCHANGED <<users, authors, articles, comments, pending>>

\* ----------------------------------------------------------------- authors
\* POST /authors
create_author(name, email, bio) ==
    LET kwargs == [name |-> name, email |-> email, bio |-> bio]
    IN  /\ IF ~constructor_accepts(AuthorAttrs, kwargs)
           THEN /\ last' = [op |-> "create_author", args |-> kwargs,
                            response |-> Unhandled("TypeError")]
                /\ UNCHANGED authors
           ELSE IF authors_unique_violation(authors, kwargs)
           THEN /\ last' = [op |-> "create_author", args |-> kwargs,
                            response |-> Unhandled("IntegrityError")]
                /\ UNCHANGED authors
           ELSE /\ authors' = Append(authors, [id |-> next_id(authors),
                                               name |-> name, email |-> email,
                                               bio |-> bio])
                /\ last' = [op |-> "create_author", args |-> kwargs,
                            response |-> RedirectResponse([path |-> "/authors"],
                                                          HTTP_303_SEE_OTHER)]
        /\ UNCHANGED <<users, articles, comments, pending>>

\* GET /authors
get_authors ==
    /\ last' = [op |-> "get_authors", args |-> <<>>,
                response |-> TemplateResponse("authors.html", [authors |-> authors])]
    /\ UNCHANGED <<users, authors, articles, comments, pending>>

\* ---------------------------------------------------------------- articles
\* POST /articles
create_article(title, content, tags) ==
    LET args == [title |-> title, content |-> content, tags |-> tags]
        author == first(authors)
    IN  /\ IF author = None
           THEN \* author.id on None
                /\ last' = [op |-> "create_article", args |-> args,
                            response |-> Unhandled("AttributeError")]
                /\ UNCHANGED articles
           ELSE LET kwargs == [title |-> title, content |-> content,
                               tags |-> split(tags, ","),
                               author_id |-> author.id]
                    violation ==
                        /\ foreign_keys_enforced
                        /\ \A i \in 1..Len(users) : users[i].id # kwargs.author_id
                IN  IF ~constructor_accepts(ArticleAttrs, kwargs)
                    THEN /\ last' = [op |-> "create_article", args |-> args,
                                     kwargs |-> kwargs,
                                     response |-> Unhandled("TypeError")]
                         /\ UNCHANGED articles
                    ELSE IF violation
                    THEN /\ last' = [op |-> "create_article", args |-> args,
                                     kwargs |-> kwargs,
                                     response |-> Unhandled("IntegrityError")]
                         /\ UNCHANGED articles
                    ELSE /\ articles' = Append(articles,
                                [id |-> next_id(articles), published_at |-> NULL]
                                    @@ kwargs)
                         /\ last' = [op |-> "create_article", args |-> args,
                                     kwargs |-> kwargs,
                                     response |-> RedirectResponse(
                                         [path |-> "/articles"], HTTP_303_SEE_OTHER)]
        /\ UNCHANGED <<users, authors, comments, pending>>

\* GET /articles
get_articles ==
    /\ last' = [op |-> "get_articles", args |-> <<>>,
                response |-> TemplateResponse("articles.html",
                                              [articles |-> articles])]
    /\ UNCHANGED <<users, authors, articles, comments, pending>>

\* GET /articles/{article_id}
read_article(article_id) ==
    LET article == first(articles_by_id(article_id))
        found == comments_by_article_id(article_id)
    IN  /\ last' = [op |-> "read_article", args |-> [article_id |-> article_id],
                    response |-> TemplateResponse("article_detail.html",
                                     [article |-> article, comments |-> found])]
        /\ UNCHANGED <<users, authors, articles, comments, pending>>

\* ---------------------------------------------------------------- comments
\* mutant: the comment is refused when no Article has the id
create_comment_checked(article_id, author_name, content) ==
    LET kwargs == [article_id |-> article_id, author_name |-> author_name,
                   content |-> content]
    IN  /\ Len(comments) < MaxComments
        /\ IF articles_by_id(article_id) = <<>>
           THEN /\ last' = [op |-> "create_comment", args |-> kwargs,
                            response |-> Unhandled("IntegrityError")]
                /\ UNCHANGED comments
           ELSE /\ comments' = Append(comments,
                        [id |-> next_id(comments), created_at |-> NULL] @@ kwargs)
                /\ last' = [op |-> "create_comment", args |-> kwargs,
                            response |-> RedirectResponse(
                                [path |-> "/articles/{article_id}",
                                 article_id |-> article_id],
                                HTTP_303_SEE_OTHER)]
        /\ UNCHANGED <<users, authors, articles, pending>>

\* POST /articles/{article_id}/comment
create_comment(article_id, author_name, content) ==
    LET kwargs == [article_id |-> article_id, author_name |-> author_name,
                   content |-> content]
        violation ==
            /\ foreign_keys_enforced
            /\ articles_by_id(article_id) = <<>>
    IN  /\ Len(comments) < MaxComments
        /\ IF ~constructor_accepts(CommentAttrs, kwargs)
           THEN /\ last' = [op |-> "create_comment", args |-> kwargs,
                            response |-> Unhandled("TypeError")]
                /\ UNCHANGED comments
           ELSE IF violation
           THEN /\ last' = [op |-> "create_comment", args |-> kwargs,
                            response |-> Unhandled("IntegrityError")]
                /\ UNCHANGED comments
           ELSE /\ comments' = Append(comments,
                        [id |-> next_id(comments), created_at |-> NULL] @@ kwargs)
                /\ last' = [op |-> "create_comment", args |-> kwargs,
                            response |-> RedirectResponse(
                                [path |-> "/articles/{article_id}",
                                 article_id |-> article_id],
                                HTTP_303_SEE_OTHER)]
        /\ UNCHANGED <<users, authors, articles, pending>>

\* ----------------------------------------------------------------- profile
\* the names read_profile can resolve: its parameters and the module globals
read_profile_names ==
    {"request", "current_user", "models", "templates", "get_db", "engine",
     "app", "oauth2_scheme", "pwd_context", "status"}

\* GET /profile
read_profile(token) ==
    LET current_user == get_current_user(token)
    IN  /\ IF current_user = None
           THEN last' = [op |-> "read_profile", args |-> [token |-> token],
                         response |-> HTTPException(HTTP_401_UNAUTHORIZED)]
           ELSE IF "db" \notin read_profile_names
           THEN last' = [op |-> "read_profile", args |-> [token |-> token],
                         response |-> Unhandled("NameError")]
           ELSE last' = [op |-> "read_profile", args |-> [token |-> token],
                         response |-> TemplateResponse("profile.html",
                             [user |-> first(users_by_username(
                                           current_user.username))])]
        /\ UNCHANGED <<users, authors, articles, comments, pending>>

\* ----------------------------------------------------------- specifications
\* requests served one at a time, each handler run from start to end
Next ==
    \/ \E u \in Usernames, e \in Emails, p \in Passwords, s \in Salts :
           register_user(u, e, p, s)
    \/ \E u \in Usernames, p \in Passwords : login(u, p)
    \/ \E n \in AuthorNames, e \in AuthorEmails, b \in AuthorBios :
           create_author(n, e, b)
    \/ get_authors
    \/ \E t \in Titles, c \in Contents, tags \in TagInputs :
           create_article(t, c, tags)
    \/ get_articles
    \/ \E a \in ArticleIds : read_article(a)
    \/ \E a \in ArticleIds, n \in CommentAuthors, c \in CommentContents :
           create_comment(a, n, c)
    \/ \E t \in Tokens : read_profile(t)

Spec == Init /\ [][Next]_vars

\* registrations in flight at the same time, committing in any order
ConcNext ==
    \/ \E u \in Usernames, e \in Emails, p \in Passwords, s \in Salts :
           register_begin(u, e, p, s)
    \/ \E r \in pending : register_commit(r)

ConcSpec == Init /\ [][ConcNext]_vars

\* tags.split(",") on every tags string up to MaxTagLen characters
TagStrings == UNION {[1..n -> TagChars] : n \in 0..MaxTagLen}

SplitInit ==
    /\ users = <<>>
    /\ authors = <<>>
    /\ articles = <<>>
    /\ comments = <<>>
    /\ pending = {}
    /\ \E tags \in TagStrings : last = [op |-> "tags", args |-> [tags |-> tags]]

split_tags ==
    /\ last.op = "tags"
    /\ last' = [op |-> "split", args |-> last.args,
                result |-> split(last.args.tags, ",")]
    /\ UNCHANGED <<users, authors, articles, comments, pending>>

SplitNext == split_tags

SplitSpec == SplitInit /\ [][SplitNext]_vars

\* the articles table as a database that already holds articles has it: rows
\* with the columns of models.Article, ids in insertion order
stored_article(id) ==
    [id |-> id, title |-> "Hi", content |-> "Body", published_at |-> NULL,
     author_id |-> NULL]

ReadInit ==
    /\ users = <<>>
    /\ authors = <<>>
    /\ \E n \in 0..MaxArticles : articles = [i \in 1..n |-> stored_article(i)]
    /\ comments = <<>>
    /\ pending = {}
    /\ last = NoRequest

\* reading articles and commenting on them, over any stored articles
ReadNext ==
    \/ \E a \in 1..(MaxArticles + 1) : read_article(a)
    \/ \E a \in 1..(MaxArticles + 1), n \in CommentAuthors, c \in CommentContents :
           create_comment(a, n, c)
    \/ get_articles

ReadSpec == ReadInit /\ [][ReadNext]_vars

\* =================================================================== claims
ok_token(username) ==
    JSONResponse([access_token |-> username, token_type |-> "bearer"])

credentials_stored(username, password) ==
    \E i \in 1..Len(users) :
        users[i].username = username /\ users[i].password.of = password

login_succeeds(username, password) ==
    login_response(username, password) = ok_token(username)

C1_LoginAnswer ==
    last.op = "login" =>
        IF credentials_stored(last.args.username, last.args.password)
        THEN last.response = ok_token(last.args.username)
        ELSE last.response = HTTPException(HTTP_400_BAD_REQUEST)

C1_RegisteredCanLogin ==
    (last.op = "register" /\ last.response.kind = "TemplateResponse") =>
        login_succeeds(last.args.username, last.args.password)

C1_LoginStaysPossible ==
    \A u \in Usernames, p \in Passwords :
        login_succeeds(u, p) => login_succeeds(u, p)'

\* C1: Login(u, p) answers {access_token: u, token_type: "bearer"} iff a User
\* row with username u holds a hash produced from p, and answers the 400
\* "invalid credentials" error otherwise; right after a successful
\* Register(u, e, p) Login(u, p) would succeed, and a login that would succeed
\* keeps succeeding whatever operation runs next.
C1_Login ==
    /\ [](C1_LoginAnswer /\ C1_RegisteredCanLogin)
    /\ [][C1_LoginStaysPossible]_vars

\* a user is registered, other operations ran, and a login of the first
\* registered user succeeded
C1_Witness ==
    /\ last.op = "login"
    /\ last.response.kind = "JSON"
    /\ Len(users) = 2
    /\ comments # <<>>
    /\ last.args.username = users[1].username

\* a handled, distinct client error (not the 500 of an unhandled exception)
is_conflict(response) == response.kind = "HTTPException"

\* C2: a Register whose username or email belongs to an existing User row
\* fails with Conflict and leaves every table unchanged.
C2_DuplicateRegisterConflicts ==
    [][(last'.op = "register" /\ users_unique_violation(users, last'.args))
          => (is_conflict(last'.response) /\ tables' = tables)]_vars

\* C3: Read Profile with token t answers the record of the User whose username
\* is t when there is one, and Unauthorized exactly when there is none; it
\* never ends in another error.
C3_ReadProfile ==
    last.op = "read_profile" =>
        LET named == users_by_username(last.args.token)
        IN  IF named # <<>>
            THEN last.response =
                     TemplateResponse("profile.html", [user |-> named[1]])
            ELSE last.response = HTTPException(HTTP_401_UNAUTHORIZED)

\* the positions of the commas of s, in order, with 0 and Len(s) + 1 around
comma_positions(s) == {0, Len(s) + 1} \cup {i \in 1..Len(s) : s[i] = ","}

nth_position(s, n) ==
    CHOOSE i \in comma_positions(s) :
        Cardinality({j \in comma_positions(s) : j < i}) = n

\* the tag sequence the claim gives: [] for "", otherwise the pieces between
\* the commas, empty pieces included
claimed_tags(s) ==
    IF s = <<>> THEN <<>>
    ELSE [k \in 1..(Cardinality(comma_positions(s)) - 1) |->
             SubSeq(s, nth_position(s, k - 1) + 1, nth_position(s, k) - 1)]

\* C4: splitting the tags string on commas gives ["a","b","c"] for "a,b,c",
\* [] for "" and ["a","","b"] for "a,,b", for every tags string.
C4_SplitTags ==
    last.op = "split" => last.result = claimed_tags(last.args.tags)

\* C5: once a user is registered, Create Article succeeds with a redirect to
\* /articles, inserts exactly one Article row, and List Articles then holds an
\* entry with that title, content and the split tags.
C5_CreateArticleListed ==
    [][(last'.op = "create_article" /\ users # <<>>)
          => /\ last'.response =
                    RedirectResponse([path |-> "/articles"], HTTP_303_SEE_OTHER)
             /\ Len(articles') = Len(articles) + 1
             /\ \E i \in 1..Len(articles') :
                    /\ articles'[i].title = last'.args.title
                    /\ articles'[i].content = last'.args.content
                    /\ articles'[i].tags = split(last'.args.tags, ",")]_vars

C6_ReadArticleAnswer ==
    last.op = "read_article" =>
        LET id == last.args.article_id
            context == last.response.context
            listed == context.comments
            matching == {i \in 1..Len(comments) : comments[i].article_id = id}
        IN  /\ last.response.kind = "TemplateResponse"
            /\ (\A i \in 1..Len(articles) : articles[i].id # id)
                   => context.article = None
            /\ \A i \in 1..Len(articles) :
                   articles[i].id = id => context.article = articles[i]
            /\ Len(listed) = Cardinality(matching)
            /\ \A k \in 1..Len(listed) : \E i \in matching : listed[k] = comments[i]
            /\ \A j, k \in 1..Len(listed) : j < k => listed[j].id < listed[k].id

\* C6: Read Article with an id no Article row has answers the page with an
\* absent article, never an unhandled error; with a matching id it answers
\* that article with exactly the comments whose article_id is the id, all of
\* them, in insertion order. No table changes.
C6_ReadArticle ==
    /\ []C6_ReadArticleAnswer
    /\ [][last'.op = "read_article" => tables' = tables]_vars

\* an existing article was read and came with its comments, not with the
\* comment of another article
C6_Witness ==
    /\ last.op = "read_article"
    /\ last.response.context.article # None
    /\ Len(last.response.context.comments) >= 1
    /\ Len(comments) > Len(last.response.context.comments)

\* C7: under any interleaving of concurrent Register requests no two User rows
\* share a username and no two share an email.
C7_UniqueUsers ==
    \A i, j \in 1..Len(users) :
        i # j => /\ users[i].username # users[j].username
                 /\ users[i].email # users[j].email
                 /\ users[i].id # users[j].id

\* a registration was refused for a username already stored under another
\* email, while another registration is still in flight
C7_Witness ==
    /\ last.op = "register"
    /\ last.response = Unhandled("IntegrityError")
    /\ \E i \in 1..Len(users) :
           /\ users[i].username = last.args.username
           /\ users[i].email # last.args.email
    /\ pending # {}

\* C8: the author_id Create Article gives the Article is the id of an existing
\* User row, the first one of the users table; every stored article's
\* author_id is the id of a User row.
C8_ArticleAuthorIsFirstUser ==
    /\ (last.op = "create_article" /\ "kwargs" \in DOMAIN last) =>
           /\ users # <<>>
           /\ last.kwargs.author_id = users[1].id
    /\ \A i \in 1..Len(articles) :
           \E j \in 1..Len(users) : users[j].id = articles[i].author_id

\* C9: Create Comment inserts exactly one Comment row with the given
\* article_id, author_name and content whether or not an Article has that id,
\* redirects to /articles/{article_id}, and changes nothing else.
C9_CreateComment ==
    [][last'.op = "create_comment" =>
          /\ Len(comments') = Len(comments) + 1
          /\ SubSeq(comments', 1, Len(comments)) = comments
          /\ comments'[Len(comments')].article_id = last'.args.article_id
          /\ comments'[Len(comments')].author_name = last'.args.author_name
          /\ comments'[Len(comments')].content = last'.args.content
          /\ last'.response =
                 RedirectResponse([path |-> "/articles/{article_id}",
                                   article_id |-> last'.args.article_id],
                                  HTTP_303_SEE_OTHER)
          /\ UNCHANGED <<users, authors, articles>>]_vars

\* a second comment was stored for an article id no Article row has
C9_Witness ==
    /\ last.op = "create_comment"
    /\ last.response.kind = "RedirectResponse"
    /\ articles_by_id(last.args.article_id) = <<>>
    /\ Len(comments) = 2
    /\ comments[2].article_id = last.args.article_id

appended(rows, rows2) ==
    /\ Len(rows2) = Len(rows) + 1
    /\ SubSeq(rows2, 1, Len(rows)) = rows

C10_Step ==
    /\ \/ tables' = tables
       \/ /\ last'.op = "register"
          /\ appended(users, users')
          /\ UNCHANGED <<authors, articles, comments>>
       \/ /\ last'.op = "create_author"
          /\ appended(authors, authors')
          /\ UNCHANGED <<users, articles, comments>>
       \/ /\ last'.op = "create_article"
          /\ appended(articles, articles')
          /\ UNCHANGED <<users, authors, comments>>
       \/ /\ last'.op = "create_comment"
          /\ appended(comments, comments')
          /\ UNCHANGED <<users, authors, articles>>
    /\ last'.op \in {"login", "get_authors", "get_articles", "read_article",
                     "read_profile"} => tables' = tables
    /\ last'.response.kind \in {"Unhandled", "HTTPException"} => tables' = tables

\* C10: every operation inserts exactly one row into exactly one table or
\* leaves all tables unchanged (the reads and every failed operation change
\* nothing); a stored row keeps its id and values and is never removed.
C10_AppendOnly == [][C10_Step]_vars

\* rows in three tables, after a registration was refused
C10_Witness ==
    /\ Len(users) = 2
    /\ Len(authors) = 2
    /\ Len(comments) = 2
    /\ last.op = "register"
    /\ last.response.kind = "Unhandled"

====
